---- MODULE Spec2Model ----
(***************************************************************************)
(* RenderLoop (the frame scheduler with its pre-/post-render hook lists    *)
(* and antialiasing-mode switch), TaaRenderPass and MotionVectorRenderer   *)
(* of taa-demo, as a state machine.  Hook nodes are numbered in the order  *)
(* of their registration; the two list sentinels are PreList and PostList. *)
(***************************************************************************)
EXTENDS Integers, Sequences, FiniteSets, TLC

\* ---------------------------------------------------------------- bounds
MaxHooks == 2
MaxTime == 1
\* objects of the scene; frames a transform snapshot's age is counted up to
MaxObjects == 2
MaxAge == 2
\* width and height of a render target, in texels
TexSize == 2

\* ------------------------------------------------------ program constants
NONE == 0
MSAA == 1
SSAA == 2
TAA == 3
MOTION == 4
\* a value outside the AntiAliasingMode enum
BadMode == 5
\* this.antialiasing before the constructor's setAntialiasingMode call
Undefined == -1
\* length passed to _generateHaltonJiters
JitterCount == 16

Null == 0
PreList == -1
PostList == -2
\* a callback invoked without an argument
NoArg == -1

\* camera.projectionMatrix.elements[8], [9] as updateProjectionMatrix leaves
\* them; otherwise the index of the jitter sample written there
NoJitter == -1
\* object.material of an object that has none; object.oldMaterial when the
\* object has no such field
NoMaterial == 0
Absent == -1
\* this._modelMatrices[object.id] of an object that has no entry
NoMatrix == -1
\* the content of a render target nothing has been rendered into
NoValue == -1
\* the colour component 1.0 of the fragment shader
One == 1

ValidModes == {NONE, MSAA, SSAA, TAA, MOTION}
Modes == ValidModes \cup {BadMode}
Hooks == 1..MaxHooks
Objects == 1..MaxObjects
Refs == {PreList, PostList} \cup Hooks

\* --------------------------------------------------------------- variables
VARIABLES
    antialiasing,       \* this.antialiasing
    composerPasses,     \* this._composer.passes, by kind of pass
    ssaaPass,           \* this._ssaaPass
    taaPass,            \* this._taaPass
    motionVecRenderer,  \* this._motionVecRenderer
    hooks,              \* the nodes of both callback lists
    isRendering,        \* this._isRendering
    rafPending,         \* requestAnimationFrame callbacks not yet run
    active,             \* _render invocations on the call stack
    pc,                 \* position of the running _render, or "idle"
    current,            \* the loop variable of _render's for loops
    lastFameTime,       \* this._lastFameTime
    timeDifference,     \* _render's local timeDifference
    frameLog,           \* stages executed by the iteration in progress
    phaseStart,         \* the list as it was when its for loop began
    cbCancelled,        \* handles cancelled by callbacks of the running loop
    trace,              \* operations performed by the latest step, in order
    camera,             \* this.camera: the jitter in its projection matrix
    scene,              \* this.scene: material and oldMaterial of each object
    pixel               \* one invocation of the reprojection fragment shader

vars == <<antialiasing, composerPasses, ssaaPass, taaPass, motionVecRenderer,
          hooks, isRendering, rafPending, active, pc, current, lastFameTime,
          timeDifference, frameLog, phaseStart, cbCancelled, trace,
          camera, scene, pixel>>

\* ------------------------------------------------------------- hook lists
\* hooks = [nxt, prv, kind, count, cancelled]:
\*   nxt[r]  node._next (also of the two sentinels), Null when absent
\*   prv[n]  node._previous
\*   kind[n] "user" for a caller's callback, "snapshot" for the post-render
\*           callback of a MotionVectorRenderer, "" while n is unallocated
\*   count   nodes created so far
\*   cancelled  handles on which cancel() has been called
EmptyHooks ==
    [nxt |-> [r \in Refs |-> Null],
     prv |-> [n \in Hooks |-> Null],
     kind |-> [n \in Hooks |-> ""],
     count |-> 0,
     cancelled |-> {}]

\* A registration that puts the new node behind the first node of the list.
AddCallbackNodeSecond(L, list, k) ==
    LET node == L.count + 1
        first == L.nxt[list]
    IN IF first = Null
       THEN [L EXCEPT !.nxt[list] = node, !.prv[node] = list,
                      !.kind[node] = k, !.count = node]
       ELSE LET after == L.nxt[first]
                n1 == [L.nxt EXCEPT ![first] = node, ![node] = after]
                p1 == [L.prv EXCEPT ![node] = first]
                p2 == IF after # Null THEN [p1 EXCEPT ![after] = node] ELSE p1
            IN [L EXCEPT !.nxt = n1, !.prv = p2, !.kind[node] = k, !.count = node]

\* _addCallbackNode(callback, list): the new node becomes the head.
AddCallbackNode(L, list, k) ==
    LET node == L.count + 1
        first == L.nxt[list]
        p1 == [L.prv EXCEPT ![node] = list]
        p2 == IF first # Null THEN [p1 EXCEPT ![first] = node] ELSE p1
        n1 == [L.nxt EXCEPT ![node] = first, ![list] = node]
    IN [L EXCEPT !.nxt = n1, !.prv = p2, !.kind[node] = k, !.count = node]

\* node.cancel(): the two pointer writes of the closure, whatever the
\* node's own (never cleared) _previous and _next point at by now.
CancelNode(L, node) ==
    LET p == L.prv[node]
        n == L.nxt[node]
        n1 == [L.nxt EXCEPT ![p] = n]
        p1 == IF n # Null THEN [L.prv EXCEPT ![n] = p] ELSE L.prv
    IN [L EXCEPT !.nxt = n1, !.prv = p1, !.cancelled = @ \cup {node}]

\* The nodes a for loop starting at r._next would visit, in order.
RECURSIVE Walk(_, _, _)
Walk(L, r, fuel) ==
    IF L.nxt[r] = Null \/ fuel = 0 THEN <<>>
    ELSE <<L.nxt[r]>> \o Walk(L, L.nxt[r], fuel - 1)

ListSeq(L, list) == Walk(L, list, MaxHooks + 1)

\* ---------------------------------------------------------- mode resources
\* The life of a GPU resource: "none" before it is created, "live" until
\* dispose() is called on it, "disposed" from then on.
Disposed(st) == IF st = "none" THEN st ELSE "disposed"

NoSsaa == [state |-> "none"]

\* _lastFrameView and _lastFrameProjection of a MotionVectorRenderer: how many
\* frames have begun since they were cloned from the camera, and the jitter
\* the cloned projection matrix carried.
Snapshot(age, jitter) == [age |-> age, jitter |-> jitter]

NoTaa ==
    [state |-> "none",            \* the pass and TaaRenderPass.dispose
     oldFrameTarget |-> "absent", \* content of the history buffer:
                                  \*   absent, garbage (allocated), defined
     history |-> "none",          \* life of _oldFrameTarget
     vecTarget |-> "none",        \* life of _vecRenderTarget (the motion buffer)
     vecRenderer |-> "none",      \* life of _vecRenderer
     hook |-> Null,               \* _vecRenderer._renderCallback
     jitterIndex |-> 0,
     historyValue |-> NoValue,    \* what _oldFrameTarget holds
     scratchValue |-> NoValue,    \* what _scratchBuffer holds
     \* of _vecRenderer:
     lastFrame |-> Snapshot(0, NoJitter),
     modelMatrices |-> [o \in Objects |-> NoMatrix],  \* age of each entry
     cached |-> [o \in Objects |-> NoMaterial],       \* _cachedMotionMaterials
     created |-> [o \in Objects |-> 0]]               \* clones of _baseMaterial made

NoMvr ==
    [state |-> "none", hook |-> Null,
     lastFrame |-> Snapshot(0, NoJitter),
     modelMatrices |-> [o \in Objects |-> NoMatrix],
     cached |-> [o \in Objects |-> NoMaterial],
     created |-> [o \in Objects |-> 0]]

Made(r) == r.state # "none"

Live(r) == r.state = "live"

\* The kinds of mode resource that exist and have not been disposed.
LiveSet(s) ==
    {k \in {"ssaa", "taa", "mvr"} :
        \/ k = "ssaa" /\ Live(s.ssaaPass)
        \/ k = "taa" /\ Live(s.taaPass)
        \/ k = "mvr" /\ Live(s.motionVecRenderer)}

\* One operation of a step: what it is, what it reads (or acts on) and
\* writes, the state before it of what it acts on (the content of the
\* history buffer for a render, the life of the object for a dispose), the
\* jitter sample in use, and the mode resources alive when it is issued.
\* A render also records the content it writes (val), for a reprojection the
\* content of the history buffer it samples (hist) and, for a motion map,
\* the age of the view and projection it uses as the last frame's (view)
\* and, for each object, the age of the model matrix it uses (models).
NotDrawn == -2
Fallback == -1

Ev(op, src, dst, was, idx, live) ==
    [op |-> op, src |-> src, dst |-> dst, was |-> was, idx |-> idx, live |-> live,
     val |-> NoValue, hist |-> NoValue, view |-> NoMatrix,
     models |-> [o \in Objects |-> NotDrawn]]

Emit(s, op, src, was) ==
    [s EXCEPT !.trace = Append(@, Ev(op, src, "", was, -1, LiveSet(s)))]

\* _rebuildGlContext: a new renderer and a new, empty composer.
RebuildGlContext(s, aaMode) ==
    [Emit(s, "rebuild", "context", "") EXCEPT !.composerPasses = <<>>]

\* THREE.SSAARenderPass.dispose, called through this._ssaaPass
SsaaDispose(s) ==
    [Emit(s, "dispose", "ssaa", s.ssaaPass.state) EXCEPT !.ssaaPass.state = Disposed(@)]

\* MotionVectorRenderer.prototype.dispose on this._motionVecRenderer.  A
\* disposed renderer never renders again: its snapshot and its cache are not
\* kept.
MvrDispose(s) ==
    [Emit(s, "dispose", "mvr", s.motionVecRenderer.state) EXCEPT
        !.hooks = CancelNode(@, s.motionVecRenderer.hook),
        !.motionVecRenderer =
            [NoMvr EXCEPT !.state = Disposed(s.motionVecRenderer.state),
                          !.hook = s.motionVecRenderer.hook]]

\* TaaRenderPass.prototype.dispose, with the dispose of its _vecRenderer.
\* A disposed pass is in no composer and never renders again, so nothing
\* reads its jitter cursor, its buffers, its snapshot or its material cache
\* any more: they are not kept.
TaaDispose(s) ==
    LET p == s.taaPass
        s1 == Emit(s, "dispose", "taa", p.state)
        s2 == IF p.oldFrameTarget # "absent"
              THEN Emit(s1, "dispose", "history", p.history) ELSE s1
        s3 == Emit(Emit(s2, "dispose", "vecRenderer", p.vecRenderer),
                   "dispose", "vecTarget", p.vecTarget)
    IN [s3 EXCEPT
        !.hooks = CancelNode(@, p.hook),
        !.taaPass.state = Disposed(@),
        !.taaPass.jitterIndex = 0,
        !.taaPass.historyValue = NoValue,
        !.taaPass.scratchValue = NoValue,
        !.taaPass.lastFrame = NoTaa.lastFrame,
        !.taaPass.modelMatrices = NoTaa.modelMatrices,
        !.taaPass.cached = NoTaa.cached,
        !.taaPass.created = NoTaa.created,
        !.taaPass.history =
            IF p.oldFrameTarget # "absent" THEN Disposed(@) ELSE @,
        !.taaPass.vecTarget = Disposed(@),
        !.taaPass.vecRenderer = Disposed(@)]

\* A cleanup that leaves the motion-vector renderer alone.
CleanupForgetsMotion(s) ==
    LET s0 == [s EXCEPT !.composerPasses = <<>>]
        s1 == IF Made(s0.ssaaPass) THEN SsaaDispose(s0) ELSE s0
    IN IF Made(s1.taaPass) THEN TaaDispose(s1) ELSE s1

\* setAntialiasingMode, "Do some cleanup"
Cleanup(s) ==
    LET s0 == [s EXCEPT !.composerPasses = <<>>]
        s1 == IF Made(s0.ssaaPass) THEN SsaaDispose(s0) ELSE s0
        s2 == IF Made(s1.taaPass) THEN TaaDispose(s1) ELSE s1
    IN IF Made(s2.motionVecRenderer) THEN MvrDispose(s2) ELSE s2

\* new TaaRenderPass(this): its MotionVectorRenderer registers a
\* post-render callback; scratch and motion buffers are allocated.
NewTaaPass(s) ==
    LET s1 == Emit(s, "new", "taa", "")
        L == AddCallbackNode(s1.hooks, PostList, "snapshot")
    IN [s1 EXCEPT !.hooks = L,
                  !.taaPass = [NoTaa EXCEPT !.state = "live", !.vecTarget = "live",
                                           !.vecRenderer = "live", !.hook = L.count,
                                           !.lastFrame = Snapshot(0, s.camera.jitter)]]

\* new MotionVectorRenderer(this)
NewMvr(s) ==
    LET s1 == Emit(s, "new", "mvr", "")
        L == AddCallbackNode(s1.hooks, PostList, "snapshot")
    IN [s1 EXCEPT !.hooks = L,
                  !.motionVecRenderer = [NoMvr EXCEPT !.state = "live", !.hook = L.count,
                                                     !.lastFrame = Snapshot(0, s.camera.jitter)]]

\* new THREE.SSAARenderPass(scene, camera)
NewSsaaPass(s) ==
    [Emit(s, "new", "ssaa", "") EXCEPT !.ssaaPass = [NoSsaa EXCEPT !.state = "live"]]

\* setAntialiasingMode, the switch over the new mode
Construct(s, mode) ==
    CASE mode = SSAA ->
            [NewSsaaPass(s) EXCEPT !.composerPasses = Append(@, "ssaa")]
      [] mode = TAA ->
            [NewTaaPass(s) EXCEPT !.composerPasses = Append(@, "taa")]
      [] mode = MOTION -> NewMvr(s)
      [] mode \in {NONE, MSAA} -> s
      [] OTHER -> Emit(s, "console.error", "Invalid AA Mode Set", "")

\* A mode change that rebuilds the graphics context for every pair of modes.
SetModeRebuildsAlways(s, mode) ==
    IF s.antialiasing = mode THEN s
    ELSE LET s1 == RebuildGlContext(s, mode)
             s2 == Cleanup(s1)
             s3 == Construct(s2, mode)
         IN [s3 EXCEPT !.antialiasing = mode]

\* RenderLoop.prototype.setAntialiasingMode
SetMode(s, mode) ==
    IF s.antialiasing = mode THEN s
    ELSE LET s1 == IF s.antialiasing = MSAA \/ mode = MSAA
                   THEN RebuildGlContext(s, mode) ELSE s
             s2 == Cleanup(s1)
             s3 == Construct(s2, mode)
         IN [s3 EXCEPT !.antialiasing = mode]

\* Nodes that a call setAntialiasingMode(mode) registers.
NodesNeeded(mode) == IF mode \in {TAA, MOTION} THEN 1 ELSE 0

\* ----------------------------------------------------- MotionVectorRenderer
\* The scene: object o is a mesh with its own material o when o is odd, and
\* an object without material (a light, the scene itself) otherwise.
DemoScene ==
    [o \in Objects |->
        [material |-> IF o % 2 = 1 THEN o ELSE NoMaterial, oldMaterial |-> Absent]]

\* this._baseMaterial.clone() made for object o
MotionMaterial(o) == MaxObjects + o

\* A lookup that never finds the cached material.
CachedMaterialNever(x, o) == NoMaterial

\* this._cachedMotionMaterials[object.id]
CachedMaterial(x, o) == x.cached[o]

\* renderMotionMap, the callback of the first traverse, for object o.
\* q = [x |-> the renderer, sc |-> the scene]
PrepareObject(q, o) ==
    IF q.sc[o].material = NoMaterial THEN q
    ELSE LET hit == CachedMaterial(q.x, o) # NoMaterial
             m == IF hit THEN CachedMaterial(q.x, o) ELSE MotionMaterial(o)
         IN [x |-> IF hit THEN q.x
                   ELSE [q.x EXCEPT !.cached[o] = m, !.created[o] = @ + 1],
             sc |-> [q.sc EXCEPT ![o] = [material |-> m,
                                         oldMaterial |-> q.sc[o].material]]]

\* A restore that leaves the oldMaterial field on the object.
RestoreObjectKeepsField(sc, o) ==
    IF sc[o].material = NoMaterial THEN sc
    ELSE [sc EXCEPT ![o].material = sc[o].oldMaterial]

\* renderMotionMap, the callback of the second traverse, for object o.
RestoreObject(sc, o) ==
    IF sc[o].material = NoMaterial THEN sc
    ELSE [sc EXCEPT ![o] = [material |-> sc[o].oldMaterial, oldMaterial |-> Absent]]

\* scene.traverse over the objects from o on
RECURSIVE PrepareFrom(_, _)
PrepareFrom(q, o) ==
    IF o > MaxObjects THEN q ELSE PrepareFrom(PrepareObject(q, o), o + 1)

RECURSIVE RestoreFrom(_, _)
RestoreFrom(sc, o) ==
    IF o > MaxObjects THEN sc ELSE RestoreFrom(RestoreObject(sc, o), o + 1)

\* uniforms.lastFrameModel of each object drawn: the age of its entry of
\* _modelMatrices, or Fallback when it has none (object.matrixWorld is used).
LastFrameModels(x, sc) ==
    [o \in Objects |->
        IF sc[o].material = NoMaterial THEN NotDrawn
        ELSE IF x.modelMatrices[o] = NoMatrix THEN Fallback
        ELSE x.modelMatrices[o]]

\* MotionVectorRenderer.prototype.renderMotionMap of renderer x into dst:
\* the renderer and the scene afterwards, and the render issued.
RenderMotionMap(x, sc, cam, dst, was, live) ==
    LET q == PrepareFrom([x |-> x, sc |-> sc], 1)
        e == [Ev("motion", "scene", dst, was, cam.jitter, live) EXCEPT
                 !.view = x.lastFrame.age,
                 !.models = LastFrameModels(x, sc)]
    IN [x |-> q.x, sc |-> RestoreFrom(q.sc, 1), ev |-> e]

\* The callback the constructor registers with onPostRender.
TakeSnapshot(x, cam) ==
    [x EXCEPT !.lastFrame = Snapshot(0, cam.jitter),
              !.modelMatrices = [o \in Objects |-> 0]]

\* A frame begins: what a live renderer holds is one frame older.
Older(age) == IF age = NoMatrix \/ age >= MaxAge THEN age ELSE age + 1

FrameBegins(x) ==
    IF ~Live(x) THEN x
    ELSE [x EXCEPT !.lastFrame.age = Older(@),
                   !.modelMatrices = [o \in Objects |-> Older(@[o])]]

\* ------------------------------------------------------------ TaaRenderPass
\* r = [p |-> the pass, m |-> this._motionVecRenderer, cam |-> the camera,
\*      sc |-> the scene, read |-> content of the composer's read buffer,
\*      tr |-> the operations issued so far]
RECURSIVE TaaRender(_, _)
RECURSIVE RenderTimes(_, _, _)

\* What a full-screen pass that samples the history buffer writes.
Sampled(hist) == IF hist = "defined" THEN "defined" ELSE "garbage"

\* Contents of render targets: the scene drawn with the camera's jitter j,
\* and the blend of such a drawing with a history buffer's content.
SceneValue(j) == j + 1

CompositeValue(cur, hist) ==
    IF cur = NoValue \/ hist = NoValue THEN NoValue ELSE JitterCount + 1 + cur

\* r after one more operation, which writes val.
Issue(r, op, src, dst, was, live, val) ==
    [r EXCEPT !.tr = Append(@, [Ev(op, src, dst, was, r.cam.jitter, live)
                                   EXCEPT !.val = val])]

\* this._vecRenderer.renderMotionMap(1.0, this._vecRenderTarget)
MotionMap(r, live) ==
    LET mm == RenderMotionMap(r.p, r.sc, r.cam, "vecTarget", r.p.oldFrameTarget, live)
    IN [r EXCEPT !.p = mm.x, !.sc = mm.sc, !.tr = Append(@, mm.ev)]

\* camera.projectionMatrix.elements[8], [9] = the sample at _jitterIndex
SetJitter(r, live) ==
    Issue([r EXCEPT !.cam.jitter = r.p.jitterIndex],
          "setJitter", "", "camera", r.p.oldFrameTarget, live, NoValue)

\* renderer.render(scene, camera, readBuffer)
RenderScene(r, live) ==
    Issue([r EXCEPT !.read = SceneValue(r.cam.jitter)],
          "scene", "scene", "read", r.p.oldFrameTarget, live, SceneValue(r.cam.jitter))

\* A camera.updateProjectionMatrix() that is never called.
UpdateProjectionMatrixSkipped(r, live) == r

\* camera.updateProjectionMatrix()
UpdateProjectionMatrix(r, live) ==
    Issue([r EXCEPT !.cam.jitter = NoJitter],
          "clearJitter", "", "camera", r.p.oldFrameTarget, live, NoValue)

\* A cursor that skips every other sample.
NextJitterIndexSkips(i) == (i + 2) % JitterCount

\* (this._jitterIndex + 1) % this._jitterOffsets.length
NextJitterIndex(i) == (i + 1) % JitterCount

\* A reprojection that renders straight into the history buffer it samples.
ReprojectInPlace(r, live) ==
    LET v == CompositeValue(r.read, r.p.historyValue)
        r1 == Issue([r EXCEPT !.p.scratchValue = v, !.p.historyValue = v],
                    "reproject", "read", "history", r.p.oldFrameTarget, live, v)
    IN [r1 EXCEPT !.tr[Len(r1.tr)].hist = r.p.historyValue]

\* copy(readBuffer, this._scratchBuffer, this._reprojectionMaterial)
Reproject(r, live) ==
    LET v == CompositeValue(r.read, r.p.historyValue)
        r1 == Issue([r EXCEPT !.p.scratchValue = v],
                    "reproject", "read", "scratch", r.p.oldFrameTarget, live, v)
    IN [r1 EXCEPT !.tr[Len(r1.tr)].hist = r.p.historyValue]

\* copy(this._scratchBuffer, this._oldFrameTarget)
CopyToHistory(r, live) ==
    Issue([r EXCEPT !.p.historyValue = r.p.scratchValue,
                    !.p.oldFrameTarget = Sampled(@)],
          "copy", "scratch", "history", r.p.oldFrameTarget, live, r.p.scratchValue)

\* copy(this._oldFrameTarget, null): renderToScreen is set
CopyToOutput(r, live) ==
    Issue(r, "copy", "history", "screen", r.p.oldFrameTarget, live, r.p.historyValue)

\* An iteration that renders the motion map after the jittered scene.
TaaCompositeMotionLate(r, live) ==
    LET r1 == SetJitter(r, live)
        r2 == RenderScene(r1, live)
        r3 == MotionMap(r2, live)
        r4 == UpdateProjectionMatrix(r3, live)
        r5 == [r4 EXCEPT !.p.jitterIndex = NextJitterIndex(@)]
    IN CopyToOutput(CopyToHistory(Reproject(r5, live), live), live)

\* TaaRenderPass.prototype.render from the motion map to the three copies.
TaaComposite(r, live) ==
    LET r1 == MotionMap(r, live)
        r2 == SetJitter(r1, live)
        r3 == RenderScene(r2, live)
        r4 == UpdateProjectionMatrix(r3, live)
        r5 == [r4 EXCEPT !.p.jitterIndex = NextJitterIndex(@)]
    IN CopyToOutput(CopyToHistory(Reproject(r5, live), live), live)

\* new THREE.WebGLRenderTarget for this._oldFrameTarget
AllocHistory(r, live) ==
    Issue([r EXCEPT !.p.oldFrameTarget = "garbage", !.p.history = "live",
                    !.p.historyValue = NoValue],
          "alloc", "", "history", "absent", live, NoValue)

\* A bootstrap that allocates the history buffer and never renders into it.
BootstrapUnprimed(r, live) ==
    RenderTimes(AllocHistory(r, live), live, JitterCount - 1)

\* A bootstrap whose loop runs once for every jitter sample.
BootstrapFullPeriod(r, live) ==
    LET r1 == AllocHistory(r, live)
        r2 == Issue([r1 EXCEPT !.p.oldFrameTarget = "defined",
                               !.p.historyValue = SceneValue(r1.cam.jitter)],
                    "scene", "scene", "history", "garbage", live,
                    SceneValue(r1.cam.jitter))
    IN RenderTimes(r2, live, JitterCount)

\* The block under "if (!this._oldFrameTarget)".
Bootstrap(r, live) ==
    LET r1 == AllocHistory(r, live)
        r2 == Issue([r1 EXCEPT !.p.oldFrameTarget = "defined",
                               !.p.historyValue = SceneValue(r1.cam.jitter)],
                    "scene", "scene", "history", "garbage", live,
                    SceneValue(r1.cam.jitter))
    IN RenderTimes(r2, live, JitterCount - 1)

\* for (i = 0; i < this._jitterOffsets.length - 1; i++) this.render(...)
\* Every render issues operations: the test on r1.tr only makes one render
\* finish before the next one is evaluated.
RenderTimes(r, live, n) ==
    IF n = 0 THEN r
    ELSE LET r1 == TaaRender(r, live)
         IN IF Len(r1.tr) > 0 THEN RenderTimes(r1, live, n - 1) ELSE r1

\* TaaRenderPass.prototype.render
TaaRender(r, live) ==
    TaaComposite(IF r.p.oldFrameTarget = "absent" THEN Bootstrap(r, live) ELSE r, live)

\* EffectComposer.render over this._composer.passes
RECURSIVE RenderPasses(_, _, _)
RenderPasses(passes, r, live) ==
    IF passes = <<>> THEN r
    ELSE LET r1 == IF Head(passes) = "taa" THEN TaaRender(r, live)
                   ELSE Issue(r, "ssaa", "scene", "screen", "", live,
                              SceneValue(r.cam.jitter))
         IN RenderPasses(Tail(passes), r1, live)

\* _render, the switch over this.antialiasing
Dispatch(mode, passes, r, live) ==
    CASE mode \in {NONE, MSAA} ->
            Issue(r, "scene", "scene", "screen", "", live, SceneValue(r.cam.jitter))
      [] mode \in {SSAA, TAA} -> RenderPasses(passes, r, live)
      [] mode = MOTION ->
            LET mm == RenderMotionMap(r.m, r.sc, r.cam, "screen", "", live)
            IN [r EXCEPT !.m = mm.x, !.sc = mm.sc, !.tr = Append(@, mm.ev)]
      [] OTHER -> r

\* ------------------------------------------------------------------ state
\* The fields setAntialiasingMode reads and writes, as one record.
Fields ==
    [antialiasing |-> antialiasing, composerPasses |-> composerPasses,
     ssaaPass |-> ssaaPass, taaPass |-> taaPass,
     motionVecRenderer |-> motionVecRenderer, hooks |-> hooks,
     camera |-> camera, trace |-> <<>>]

\* The fields as the RenderLoop constructor leaves them before its call of
\* setAntialiasingMode(props.antialiasing).
Constructed ==
    [antialiasing |-> Undefined, composerPasses |-> <<>>,
     ssaaPass |-> NoSsaa, taaPass |-> NoTaa, motionVecRenderer |-> NoMvr,
     hooks |-> EmptyHooks, camera |-> [jitter |-> NoJitter], trace |-> <<>>]

Store(s) ==
    /\ antialiasing' = s.antialiasing
    /\ composerPasses' = s.composerPasses
    /\ ssaaPass' = s.ssaaPass
    /\ taaPass' = s.taaPass
    /\ motionVecRenderer' = s.motionVecRenderer
    /\ hooks' = s.hooks
    /\ trace' = s.trace

modeVars == <<antialiasing, composerPasses, ssaaPass, taaPass,
              motionVecRenderer>>
loopVars == <<isRendering, rafPending, active, pc, current, lastFameTime,
              timeDifference, frameLog, phaseStart>>
sceneVars == <<camera, scene>>

\* No invocation of the fragment shader is under observation.
NoPixel == [on |-> FALSE, bound |-> FALSE]

Init ==
    /\ \E m \in ValidModes :
        LET s == SetMode(Constructed, m)
        IN /\ antialiasing = s.antialiasing
           /\ composerPasses = s.composerPasses
           /\ ssaaPass = s.ssaaPass
           /\ taaPass = s.taaPass
           /\ motionVecRenderer = s.motionVecRenderer
           /\ hooks = s.hooks
           /\ trace = s.trace
    /\ isRendering = FALSE
    /\ rafPending = 0
    /\ active = 0
    /\ pc = "idle"
    /\ current = Null
    /\ lastFameTime = 0
    /\ timeDifference = 0
    /\ frameLog = <<>>
    /\ phaseStart = <<>>
    /\ cbCancelled = {}
    /\ camera = Constructed.camera
    /\ scene = DemoScene
    /\ pixel = NoPixel

\* The caller's code runs between frames or inside one of its own callbacks.
CanCall ==
    \/ pc = "idle"
    \/ pc \in {"preCb", "postCb"} /\ hooks.kind[current] = "user"

InCallback == pc \in {"preCb", "postCb"}

\* ------------------------------------------------------------- the caller
SetAntialiasingMode(m) ==
    /\ CanCall
    /\ antialiasing # m => hooks.count + NodesNeeded(m) <= MaxHooks
    /\ Store(SetMode(Fields, m))
    /\ UNCHANGED <<loopVars, cbCancelled, sceneVars, pixel>>

OnPreRender ==
    /\ CanCall
    /\ hooks.count < MaxHooks
    /\ hooks' = AddCallbackNode(hooks, PreList, "user")
    /\ trace' = <<>>
    /\ UNCHANGED <<modeVars, loopVars, cbCancelled, sceneVars, pixel>>

OnPostRender ==
    /\ CanCall
    /\ hooks.count < MaxHooks
    /\ hooks' = AddCallbackNode(hooks, PostList, "user")
    /\ trace' = <<>>
    /\ UNCHANGED <<modeVars, loopVars, cbCancelled, sceneVars, pixel>>

\* handle.cancel() by the caller that holds the handle
Cancel(h) ==
    /\ CanCall
    /\ h <= hooks.count
    /\ hooks.kind[h] = "user"
    /\ hooks' = CancelNode(hooks, h)
    /\ cbCancelled' = IF InCallback THEN cbCancelled \cup {h} ELSE cbCancelled
    /\ trace' = <<>>
    /\ UNCHANGED <<modeVars, loopVars, sceneVars, pixel>>

\* ------------------------------------------------------------- the frame
\* The argument a pre-render callback is called with.
PreArgTimestamp(td, now) == now

PreArg(td, now) == td

\* _render up to the first for loop.
EnterRender(t) ==
    /\ timeDifference' = t - lastFameTime
    /\ lastFameTime' = t
    /\ current' = hooks.nxt[PreList]
    /\ pc' = "pre"
    /\ active' = active + 1
    /\ frameLog' = <<>>
    /\ phaseStart' = ListSeq(hooks, PreList)
    /\ cbCancelled' = {}
    /\ trace' = <<>>
    /\ taaPass' = FrameBegins(taaPass)
    /\ motionVecRenderer' = FrameBegins(motionVecRenderer)
    /\ UNCHANGED <<antialiasing, composerPasses, ssaaPass, hooks, sceneVars, pixel>>

\* The guard of start().
ShouldStartAlways(rendering) == TRUE

ShouldStart(rendering) == ~rendering

\* RenderLoop.prototype.start
Start ==
    /\ CanCall
    /\ IF ShouldStart(isRendering)
       THEN /\ isRendering' = TRUE
            /\ \E t \in lastFameTime..MaxTime : EnterRender(t)
            /\ UNCHANGED rafPending
       ELSE /\ trace' = << Ev("start", "", "", "rendering", -1, LiveSet(Fields)) >>
            /\ UNCHANGED <<modeVars, hooks, loopVars, cbCancelled, sceneVars, pixel>>

\* The host runs a callback passed to requestAnimationFrame.
RafTick ==
    /\ pc = "idle"
    /\ rafPending > 0
    /\ rafPending' = rafPending - 1
    /\ \E t \in lastFameTime..MaxTime : EnterRender(t)
    /\ UNCHANGED isRendering

Stage(stage, node, arg) == [stage |-> stage, node |-> node, arg |-> arg]

\* current.callback(timeDifference)
PreCall ==
    /\ pc = "pre"
    /\ current # Null
    /\ frameLog' = Append(frameLog, Stage("pre", current, PreArg(timeDifference, lastFameTime)))
    /\ pc' = "preCb"
    /\ trace' = <<>>
    /\ UNCHANGED <<modeVars, hooks, isRendering, rafPending, active, current,
                   lastFameTime, timeDifference, phaseStart, cbCancelled,
                   sceneVars, pixel>>

\* The callback of node, when it is the one a MotionVectorRenderer
\* registered: the renderer x that owns it takes its snapshot.
SnapshotCallback(x, node, cam) ==
    IF Live(x) /\ x.hook = node THEN TakeSnapshot(x, cam) ELSE x

\* current.callback()
PostCall ==
    /\ pc = "post"
    /\ current # Null
    /\ frameLog' = Append(frameLog, Stage("post", current, NoArg))
    /\ pc' = "postCb"
    /\ trace' = <<>>
    /\ taaPass' = SnapshotCallback(taaPass, current, camera)
    /\ motionVecRenderer' = SnapshotCallback(motionVecRenderer, current, camera)
    /\ UNCHANGED <<antialiasing, composerPasses, ssaaPass, hooks, isRendering,
                   rafPending, active, current, lastFameTime, timeDifference,
                   phaseStart, cbCancelled, sceneVars, pixel>>

\* The callback returns and the loop steps: current = current._next.
Return ==
    /\ InCallback
    /\ current' = hooks.nxt[current]
    /\ pc' = IF pc = "preCb" THEN "pre" ELSE "post"
    /\ trace' = <<>>
    /\ UNCHANGED <<modeVars, hooks, isRendering, rafPending, active,
                   lastFameTime, timeDifference, frameLog, phaseStart, cbCancelled,
                   sceneVars, pixel>>

\* The callback throws: nothing in _render or start catches it.
Throw ==
    /\ InCallback
    /\ hooks.kind[current] = "user"
    /\ pc' = "idle"
    /\ active' = 0
    /\ current' = Null
    /\ timeDifference' = 0
    /\ frameLog' = <<>>
    /\ phaseStart' = <<>>
    /\ cbCancelled' = {}
    /\ trace' = <<>>
    /\ UNCHANGED <<modeVars, hooks, isRendering, rafPending, lastFameTime,
                   sceneVars, pixel>>

\* The first loop ends; the switch renders; the second loop begins.
Render ==
    /\ pc = "pre"
    /\ current = Null
    /\ LET r == Dispatch(antialiasing, composerPasses,
                         [p |-> taaPass, m |-> motionVecRenderer, cam |-> camera,
                          sc |-> scene, read |-> NoValue, tr |-> <<>>],
                         LiveSet(Fields))
       IN /\ taaPass' = r.p
          /\ motionVecRenderer' = r.m
          /\ camera' = r.cam
          /\ scene' = r.sc
          /\ trace' = r.tr
    /\ frameLog' = Append(frameLog, Stage("render", Null, NoArg))
    /\ current' = hooks.nxt[PostList]
    /\ pc' = "post"
    /\ phaseStart' = ListSeq(hooks, PostList)
    /\ cbCancelled' = {}
    /\ UNCHANGED <<antialiasing, composerPasses, ssaaPass,
                   hooks, isRendering, rafPending, active,
                   lastFameTime, timeDifference, pixel>>

\* The second loop ends: requestAnimationFrame, and _render returns.
PostDone ==
    /\ pc = "post"
    /\ current = Null
    /\ rafPending' = rafPending + 1
    /\ pc' = "idle"
    /\ active' = active - 1
    /\ timeDifference' = 0
    /\ frameLog' = <<>>
    /\ phaseStart' = <<>>
    /\ cbCancelled' = {}
    /\ trace' = <<>>
    /\ UNCHANGED <<modeVars, hooks, isRendering, current, lastFameTime,
                   sceneVars, pixel>>

Next ==
    \/ \E m \in Modes : SetAntialiasingMode(m)
    \/ OnPreRender
    \/ OnPostRender
    \/ \E h \in Hooks : Cancel(h)
    \/ Start
    \/ RafTick
    \/ PreCall
    \/ PostCall
    \/ Return
    \/ Throw
    \/ Render
    \/ PostDone

Spec == Init /\ [][Next]_vars

\* The caller that switches the mode only from an event handler, between
\* frames, as the buttons of Demo.js do; everything else as in Next.
SwitchMode(m) ==
    /\ pc = "idle"
    /\ SetAntialiasingMode(m)

NextHost ==
    \/ \E m \in Modes : SwitchMode(m)
    \/ OnPreRender
    \/ OnPostRender
    \/ \E h \in Hooks : Cancel(h)
    \/ Start
    \/ RafTick
    \/ PreCall
    \/ PostCall
    \/ Return
    \/ Throw
    \/ Render
    \/ PostDone

SpecHost == Init /\ [][NextHost]_vars

\* The caller that registers hooks and switches the mode between frames,
\* cancels no hook and whose hooks do not throw.
NextFrames ==
    \/ \E m \in Modes : SwitchMode(m)
    \/ OnPreRender
    \/ OnPostRender
    \/ Start
    \/ RafTick
    \/ PreCall
    \/ PostCall
    \/ Return
    \/ Render
    \/ PostDone

SpecFrames == Init /\ [][NextFrames]_vars

\* Mode churn alone: the mode goes back and forth between NONE and TAA,
\* between frames, while the loop renders; no caller's hooks.
NextChurn ==
    \/ \E m \in {NONE, TAA} : SwitchMode(m)
    \/ Start
    \/ RafTick
    \/ PostCall
    \/ Return
    \/ Render
    \/ PostDone

SpecChurn == Init /\ [][NextChurn]_vars

\* ------------------------------------------- the reprojection fragment shader
\* One colour channel, in exact arithmetic.  Render targets are TexSize by
\* TexSize texels; a texture coordinate counts half texels, so that texel
\* (i, j) has its centre at (2i + 1, 2j + 1) and 1.0 is UvOne; a motion texel
\* counts in units of 1 / MotionOne.
UvOne == 2 * TexSize
MotionOne == 2 * UvOne
Levels == 0..One
Texels == (0..(TexSize - 1)) \X (0..(TexSize - 1))

Min2(a, b) == IF a < b THEN a ELSE b
Max2(a, b) == IF a > b THEN a ELSE b
Abs(a) == IF a < 0 THEN 0 - a ELSE a

\* texture2D on a render target: THREE.WebGLRenderTarget wraps with
\* ClampToEdgeWrapping, so a coordinate beyond the edge reads the edge texel.
ClampToEdge(u) == Min2(Max2(u, 1), UvOne - 1)

Texture2D(tex, uv) ==
    tex[<<(ClampToEdge(uv[1]) - 1) \div 2, (ClampToEdge(uv[2]) - 1) \div 2>>]

\* (pixelMovement.xy * 2.0) - 1.0, one component, as a texture coordinate
Decode(m) == (((m * 2) - MotionOne) * UvOne) \div MotionOne

\* A loop that starts past the centre: for x = 0..1, for y = 0..1, less (0, 0).
NeighborOffsetsPastCentre == << <<0, 1>>, <<1, 0>>, <<1, 1>> >>

\* for x = -1..1, for y = -1..1
NeighborOffsets ==
    << <<-1, -1>>, <<-1, 0>>, <<-1, 1>>, <<0, -1>>, <<0, 0>>, <<0, 1>>,
       <<1, -1>>, <<1, 0>>, <<1, 1>> >>

\* The loop over the neighbours from the k-th on; n = [max, min, sum], sum
\* being nine times the shader's average.
RECURSIVE Neighbors(_, _, _, _)
Neighbors(tDiffuse, Uv, n, k) ==
    IF k > Len(NeighborOffsets) THEN n
    ELSE LET neighborUv == <<Uv[1] + 2 * NeighborOffsets[k][1],
                             Uv[2] + 2 * NeighborOffsets[k][2]>>
             neighborTexel == Texture2D(tDiffuse, neighborUv)
         IN Neighbors(tDiffuse, Uv,
                      [max |-> Max2(n.max, neighborTexel),
                       min |-> Min2(n.min, neighborTexel),
                       sum |-> n.sum + neighborTexel], k + 1)

\* clamp(x, lo, hi) of GLSL
Clamp(x, lo, hi) == Min2(Max2(x, lo), hi)

\* mix(x, y, a) of GLSL for a = num / den, times den
Mix(x, y, num, den) == x * (den - num) + y * num

\* main() of the fragment shader at Uv; opacity is 1.0.  weight is
\* 0.05 * distance(average, texel) = weightNum / den.
FragmentShader(tDiffuse, tMotion, tLastFrame, Uv) ==
    LET texel == Texture2D(tDiffuse, Uv)
        oldPixelUv == <<Uv[1] - Decode(tMotion[1]), Uv[2] - Decode(tMotion[2])>>
        oldTexel == Texture2D(tLastFrame, oldPixelUv)
        n == Neighbors(tDiffuse, Uv, [max |-> 0, min |-> One, sum |-> 0], 1)
        clamped == Clamp(oldTexel, n.min, n.max)
        den == 9 * 20 * One
        weightNum == Abs(n.sum - 9 * texel)
    IN [on |-> TRUE, Uv |-> Uv, texel |-> texel, oldPixelUv |-> oldPixelUv,
        oldTexel |-> oldTexel, min |-> n.min, max |-> n.max, clamped |-> clamped,
        weightNum |-> weightNum, den |-> den,
        compositeNum |-> Mix(clamped, texel, weightNum, den)]

\* The contents a render target is drawn from: every image for the current
\* frame; for the history buffer the images of one colour and those with one
\* texel of another colour.
Images == [Texels -> Levels]
HistoryImages ==
    {h \in Images : \E t \in Texels : \A u, v \in Texels \ {t} : h[u] = h[v]}

\* The motion texels that encode a displacement of -1, 0 or 1 texel.
MotionTexels == {UvOne + 2 * d : d \in {-1, 0, 1}}

\* The pass binds the read buffer and the history buffer to the shader's
\* uniforms.
BindUniforms ==
    /\ ~pixel.on /\ ~pixel.bound
    /\ \E tDiffuse \in Images, tLastFrame \in HistoryImages :
          pixel' = [on |-> FALSE, bound |-> TRUE, tDiffuse |-> tDiffuse,
                    tLastFrame |-> tLastFrame]
    /\ UNCHANGED <<modeVars, hooks, loopVars, cbCancelled, trace, sceneVars>>

\* The pass shades one pixel.
Shade ==
    /\ ~pixel.on /\ pixel.bound
    /\ \E t \in Texels, mx \in MotionTexels, my \in MotionTexels :
          pixel' = FragmentShader(pixel.tDiffuse, <<mx, my>>, pixel.tLastFrame,
                                  <<2 * t[1] + 1, 2 * t[2] + 1>>)
    /\ UNCHANGED <<modeVars, hooks, loopVars, cbCancelled, trace, sceneVars>>

NextShader == BindUniforms \/ Shade

\* The pass exists in the TAA mode only.
InitShader == Init /\ antialiasing = TAA

SpecShader == InitShader /\ [][NextShader]_vars

\* ----------------------------------------------------------------- claims
Without(seq, h) == SelectSeq(seq, LAMBDA x : x # h)

TraceOps(op) == {i \in DOMAIN trace : trace[i].op = op}

\* The entries of frameLog made by one of the two loops.
StageLog(stage) == SelectSeq(frameLog, LAMBDA e : e.stage = stage)

Decreasing(seq) == \A i, j \in DOMAIN seq : i < j => seq[i] > seq[j]

Range(s) == {s[i] : i \in 1..Len(s)}

\* The mode resources that belong to a mode.
ModeKinds(mode) ==
    CASE mode = SSAA -> {"ssaa"} [] mode = TAA -> {"taa"} [] mode = MOTION -> {"mvr"}
      [] OTHER -> {}

\* C1: a cancel() call on handle h, at any time and also when h has been
\* cancelled before, removes only h from its list: both lists are afterwards
\* what they were before, in the same order, without h.
C1_CancelRemovesOnlyItsHook ==
    [][\A h \in Hooks :
        Cancel(h) =>
            /\ ListSeq(hooks', PreList) = Without(ListSeq(hooks, PreList), h)
            /\ ListSeq(hooks', PostList) = Without(ListSeq(hooks, PostList), h)]_vars

\* C2: under mode churn every TAA pass, history buffer and motion buffer is
\* disposed exactly once: dispose() is never called on one that has been
\* disposed already, and none stays undisposed once the mode is no longer TAA.
C2_TaaBuffersDisposedExactlyOnce ==
    /\ \A i \in TraceOps("dispose") :
          trace[i].src \in {"taa", "history", "vecTarget"} => trace[i].was = "live"
    /\ antialiasing # TAA =>
          /\ taaPass.state # "live"
          /\ taaPass.history # "live"
          /\ taaPass.vecTarget # "live"

\* C3: setAntialiasingMode with a value outside the enum reports a
\* diagnostic and leaves the mode, the composer's passes and the resources
\* as they were.
C3_InvalidModeChangesNothing ==
    [][SetAntialiasingMode(BadMode) =>
        /\ TraceOps("console.error")' # {}
        /\ antialiasing' = antialiasing
        /\ composerPasses' = composerPasses
        /\ ssaaPass' = ssaaPass
        /\ taaPass' = taaPass
        /\ motionVecRenderer' = motionVecRenderer]_vars

\* C4: when a hook raises an error the hook lists stay as they were and the
\* frame loop keeps running: a next iteration is requested.
C4_LoopSurvivesHookError ==
    [][Throw => (hooks' = hooks /\ rafPending' >= 1)]_vars

\* C5: a hook that a callback of the running loop has cancelled before it
\* was invoked is not invoked in this frame, and every hook that was in the
\* list when the loop began and has not been cancelled is invoked exactly
\* once by the time the loop ends.
C5_CancelInsideCallbackIsImmediate ==
    /\ [][(PreCall \/ PostCall) => current \notin cbCancelled]_vars
    /\ [](pc \in {"pre", "post"} /\ current = Null =>
            \A n \in Range(phaseStart) \ hooks.cancelled :
                Len(SelectSeq(StageLog(pc), LAMBDA e : e.node = n)) = 1)

\* C6: a registration puts the new hook at the head of its list, in front of
\* the former head, and the hooks of a list are invoked last-registered-first:
\* the list a loop starts from and the sequence of hooks it invokes both run
\* from later to earlier registrations.
C6_HooksRunLastRegisteredFirst ==
    /\ [](/\ Decreasing(phaseStart)
          /\ \A st \in {"pre", "post"} :
                Decreasing([i \in DOMAIN StageLog(st) |-> StageLog(st)[i].node]))
    /\ [][\A list \in {PreList, PostList} :
            (IF list = PreList THEN OnPreRender ELSE OnPostRender) =>
                /\ hooks'.nxt[list] = hooks'.count
                /\ ListSeq(hooks', list) = <<hooks'.count>> \o ListSeq(hooks, list)]_vars

C6_Witness ==
    /\ pc = "pre"
    /\ current = Null
    /\ Len(StageLog("pre")) >= 2
    /\ hooks.cancelled = {}

StageRank(st) == CASE st = "pre" -> 1 [] st = "render" -> 2 [] OTHER -> 3

\* C7: an iteration runs the pre-render hooks, each with the same delta (its
\* timestamp minus the previous one), then the render dispatch once, then the
\* post-render hooks without argument, then requests the next iteration
\* exactly once; iterations never nest.
C7_IterationStagesInOrder ==
    /\ [](/\ \A i, j \in DOMAIN frameLog :
                i < j => StageRank(frameLog[i].stage) <= StageRank(frameLog[j].stage)
          /\ Len(StageLog("render")) <= 1
          /\ \A i \in DOMAIN frameLog :
                frameLog[i].arg = IF frameLog[i].stage = "pre" THEN timeDifference ELSE NoArg
          /\ pc = "post" => Len(StageLog("render")) = 1
          /\ active = IF pc = "idle" THEN 0 ELSE 1)
    /\ [][/\ (pc = "idle" /\ pc' # "idle") =>
                timeDifference' = lastFameTime' - lastFameTime
          /\ rafPending' > rafPending =>
                (pc = "post" /\ current = Null /\ rafPending' = rafPending + 1)
          /\ (pc = "post" /\ pc' = "idle") => rafPending' = rafPending + 1]_vars

C7_Witness ==
    /\ pc = "post"
    /\ current = Null
    /\ Len(StageLog("pre")) >= 1
    /\ Len(StageLog("post")) >= 1
    /\ timeDifference >= 1

\* C8: however often start() is called, between frames or from inside a
\* hook, there is one frame loop: never more than one next-iteration request
\* is pending, none is pending while an iteration runs, and iterations do not
\* nest.
C8_StartIsIdempotent ==
    /\ rafPending + active <= 1
    /\ ~isRendering => (rafPending = 0 /\ active = 0)

C8_Witness ==
    /\ TraceOps("start") # {}
    /\ InCallback
    /\ isRendering

\* C9: a mode change disposes the previous mode's resources before it
\* constructs the new mode's: nothing is disposed after a construction in the
\* same call, no mode resource is alive when one is constructed, and at any
\* time the only live mode resource is the active mode's.
C9_OldModeDisposedBeforeNewBuilt ==
    /\ \A i \in TraceOps("new") : trace[i].live = {}
    /\ \A i \in TraceOps("new"), j \in TraceOps("dispose") : j < i
    /\ LiveSet(Fields) \subseteq ModeKinds(antialiasing)

C9_Witness ==
    /\ \E i \in TraceOps("dispose") : trace[i].was = "live" /\ trace[i].src = "taa"
    /\ \E i \in TraceOps("new") : trace[i].src = "mvr"

\* C10: no composite samples the history buffer before it has been written:
\* every reprojection finds it defined, and the first one of a pass comes
\* after the unjittered scene render into the newly allocated buffer.
C10_HistoryWrittenBeforeComposite ==
    /\ \A i \in TraceOps("reproject") : trace[i].was = "defined"
    /\ \A i \in TraceOps("alloc") :
          /\ i < Len(trace)
          /\ trace[i + 1].op = "scene" /\ trace[i + 1].dst = "history"
          /\ \A j \in TraceOps("reproject") : j > i + 1
    /\ taaPass.oldFrameTarget # "garbage"

C10_Witness ==
    /\ TraceOps("alloc") # {}
    /\ Cardinality(TraceOps("reproject")) = JitterCount
    /\ antialiasing = TAA

\* ------------------------------------------------- claims on the TAA pass
\* The operations of the latest step that write dst.
WritesTo(dst) == {i \in DOMAIN trace : trace[i].dst = dst}

\* The composite iterations finished before operation j: an iteration ends
\* with its write of the history buffer and of the output.
HistoryWritesBefore(j) ==
    {k \in 1..(j - 1) : trace[k].op = "copy" /\ trace[k].dst = "history"}

\* A bootstrap is an unjittered scene render into the new history buffer and
\* then JitterCount - 1 composite iterations, each with its scene render; the
\* render that bootstraps ends with one more iteration, its own.
BootstrapSequence ==
    \A i \in TraceOps("alloc") :
        /\ i < Len(trace)
        /\ trace[i + 1].op = "scene" /\ trace[i + 1].dst = "history"
        /\ trace[i + 1].idx = NoJitter
        /\ \A k \in 1..(i - 1) : trace[k].op \notin {"scene", "reproject"}
        /\ Cardinality({k \in TraceOps("scene") : k > i /\ trace[k].dst = "read"})
              = JitterCount
        /\ Cardinality({k \in TraceOps("reproject") : k > i}) = JitterCount

\* A pass leaves the state without history buffer once: a step allocates at
\* most one buffer, only for a pass that has none, and a pass that has one
\* keeps it.
ColdLeftOnce ==
    [][/\ Cardinality(TraceOps("alloc")') <= 1
       /\ TraceOps("alloc")' # {} =>
              (taaPass.oldFrameTarget = "absent" /\ taaPass'.oldFrameTarget = "defined")
       /\ (taaPass.oldFrameTarget # "absent" /\ taaPass'.hook = taaPass.hook) =>
              taaPass'.oldFrameTarget # "absent"]_vars

\* C11 as stated: the first render of a pass makes one unjittered scene
\* render into the history buffer and then 15 composite iterations, nothing is
\* written to the output before these are finished, and the pass leaves the
\* Cold state once.
C11_NoOutputBeforeBootstrapEnds ==
    /\ [](BootstrapSequence /\
          (TraceOps("alloc") # {} =>
              \A j \in WritesTo("screen") :
                  Cardinality(HistoryWritesBefore(j)) >= JitterCount - 1))
    /\ ColdLeftOnce

\* C11, amended: the first render of a pass makes one unjittered scene render
\* into the history buffer and then 15 composite iterations, each of which
\* also writes its composite to the output; the last write to the output of
\* that render is its own composite's, issued after all 15 are finished; the
\* pass leaves the Cold state once.
C11_BootstrapThenOwnComposite ==
    /\ [](BootstrapSequence /\
          (TraceOps("alloc") # {} =>
              /\ Cardinality(WritesTo("screen")) = JitterCount
              /\ \A j \in WritesTo("screen") :
                    Cardinality(HistoryWritesBefore(j)) >= 1
              /\ trace[Len(trace)].dst = "screen"
              /\ Cardinality(HistoryWritesBefore(Len(trace))) = JitterCount))
    /\ ColdLeftOnce

C11_Witness ==
    /\ TraceOps("alloc") # {}
    /\ Cardinality(WritesTo("screen")) = JitterCount
    /\ taaPass.oldFrameTarget = "defined"
    /\ pc = "post"

\* The jitter samples the latest step wrote into the projection matrix, in
\* the order in which it applied them.
AppliedJitters ==
    LET at == SelectSeq([i \in DOMAIN trace |-> i], LAMBDA i : trace[i].op = "setJitter")
    IN [k \in DOMAIN at |-> trace[at[k]].idx]

\* C12 as stated: the jitter cursor stays in [0, 16) and every frame rendered
\* in Temporal mode, the bootstrap frame included, applies one sample and
\* moves the cursor on by one modulo 16.
C12_CursorAdvancesOncePerFrame ==
    /\ [](taaPass.jitterIndex \in 0..(JitterCount - 1))
    /\ [][(Render /\ antialiasing = TAA) =>
            /\ AppliedJitters' = <<taaPass.jitterIndex>>
            /\ taaPass'.jitterIndex = (taaPass.jitterIndex + 1) % JitterCount]_vars

\* C12, amended: the jitter cursor stays in [0, 16) and moves on by one
\* modulo 16 per composite iteration, each iteration applying the sample at
\* the cursor; a frame makes one iteration, except the bootstrap frame, which
\* makes 16, applies every sample once and leaves the cursor where it was.
C12_CursorAdvancesOncePerIteration ==
    /\ [](/\ taaPass.jitterIndex \in 0..(JitterCount - 1)
          /\ \A k \in DOMAIN AppliedJitters :
                /\ AppliedJitters[k] \in 0..(JitterCount - 1)
                /\ k > 1 => AppliedJitters[k] = (AppliedJitters[k - 1] + 1) % JitterCount)
    /\ [][(Render /\ antialiasing = TAA) =>
            /\ Len(AppliedJitters') =
                  IF taaPass.oldFrameTarget = "absent" THEN JitterCount ELSE 1
            /\ AppliedJitters'[1] = taaPass.jitterIndex
            /\ taaPass'.jitterIndex =
                  (taaPass.jitterIndex + Len(AppliedJitters')) % JitterCount
            /\ taaPass.oldFrameTarget = "absent" =>
                  /\ Range(AppliedJitters') = 0..(JitterCount - 1)
                  /\ taaPass'.jitterIndex = taaPass.jitterIndex]_vars

\* The cursor wraps around in a frame that is not the bootstrap frame.
C12_Witness ==
    /\ AppliedJitters = <<JitterCount - 1>>
    /\ taaPass.jitterIndex = 0
    /\ antialiasing = TAA
    /\ pc = "post"

\* ------------------------------------------------- claims on the shader
OutOfRange(uv) == \E i \in 1..2 : uv[i] < 0 \/ uv[i] > UvOne

\* C13: a pixel whose reprojected history coordinate lies outside the unit
\* square is composited as the current frame's pixel, with no contribution
\* from the history.
C13_OutOfRangeFallsBack ==
    (pixel.on /\ OutOfRange(pixel.oldPixelUv))
        => pixel.compositeNum = pixel.texel * pixel.den

\* C14: when the reprojected history sample equals the current pixel, the
\* clamp to the neighbourhood's range leaves it alone and the blend is the
\* current pixel, whatever the contrast weight.
C14_EqualHistoryIsFixpoint ==
    (pixel.on /\ pixel.oldTexel = pixel.texel)
        => /\ pixel.min <= pixel.texel /\ pixel.texel <= pixel.max
           /\ pixel.clamped = pixel.oldTexel
           /\ pixel.compositeNum = pixel.texel * pixel.den
           /\ \A num \in 0..pixel.den :
                 Mix(pixel.clamped, pixel.texel, num, pixel.den)
                     = pixel.texel * pixel.den

C14_Witness ==
    /\ pixel.on /\ pixel.oldTexel = pixel.texel
    /\ pixel.min < pixel.max /\ pixel.weightNum > 0
    /\ pixel.oldPixelUv # pixel.Uv /\ ~OutOfRange(pixel.oldPixelUv)

\* ------------------------------------------- claims on the composite iteration
\* The operations of the iteration that ends with the reprojection at i, from
\* the n-th before it on.
StagesBefore(i, n) == [k \in 1..n |-> trace[i - n + k - 1].op]

SnapshotCalls(x) ==
    Len(SelectSeq(frameLog, LAMBDA e : e.stage = "post" /\ e.node = x.hook))

\* Renderer x, if live, has replaced its snapshot once in this frame's
\* post-render phase and not before it.
SnapshotOnce(x) ==
    Live(x) =>
        /\ pc \in {"pre", "preCb"} => (SnapshotCalls(x) = 0 /\ x.lastFrame.age >= 1)
        /\ (pc = "post" /\ current = Null) =>
              (SnapshotCalls(x) = 1 /\ x.lastFrame.age = 0)

\* C16: a live MotionVectorRenderer replaces its transform snapshot exactly
\* once per frame, in the post-render phase after the scene render, however
\* many motion maps the frame renders.
C16_SnapshotOncePerFrame ==
    SnapshotOnce(taaPass) /\ SnapshotOnce(motionVecRenderer)

\* C17: every motion map takes as the last frame's view and projection, and
\* as the last frame's model matrix of every object it draws, what was
\* captured in the preceding frame, never in the current one; an object
\* without recorded matrix is drawn with its current one.
C17_MotionMapUsesPrecedingFrame ==
    \A i \in TraceOps("motion") :
        /\ trace[i].view = 1
        /\ \A o \in Objects : trace[i].models[o] \in {1, Fallback, NotDrawn}

\* ------------------------------------------------- claims on the jitter
\* The operations that are issued with a jittered projection.
Jittered == {i \in DOMAIN trace : trace[i].idx # NoJitter}

\* C18: the projection is jittered only from the TAA pass's write of the
\* sample to its scene render into the read buffer, after which the jitter is
\* cleared: between the steps of a frame, at every hook and in every snapshot
\* the projection is not jittered.
C18_JitterOnlyInSceneRender ==
    /\ camera.jitter = NoJitter
    /\ taaPass.lastFrame.jitter = NoJitter
    /\ motionVecRenderer.lastFrame.jitter = NoJitter
    /\ \A i \in Jittered :
          /\ \/ trace[i].op = "setJitter"
             \/ trace[i].op = "scene" /\ trace[i].dst = "read"
                                      /\ "taa" \in trace[i].live
          /\ trace[i].op = "scene" =>
                (i < Len(trace) /\ trace[i + 1].op = "clearJitter"
                                /\ trace[i + 1].idx = NoJitter)

\* A TAA frame has rendered the scene with a jittered projection and its
\* post-render hooks, the snapshot among them, are about to run.
C18_Witness ==
    /\ antialiasing = TAA
    /\ pc = "post" /\ current # Null
    /\ \E i \in Jittered : trace[i].op = "scene"
    /\ camera.jitter = NoJitter

\* ------------------------------------------ claims on the motion materials
\* Renderer x has made at most one motion material for each object, the one
\* it holds in its cache, and none for an object without material.
OneMaterialEach(x) ==
    \A o \in Objects :
        /\ x.created[o] <= 1
        /\ x.created[o] = 1 <=> x.cached[o] # NoMaterial
        /\ x.cached[o] # NoMaterial =>
              (x.cached[o] = MotionMaterial(o) /\ DemoScene[o].material # NoMaterial)

\* C19: when renderMotionMap has returned, every object has the material it
\* had before and no oldMaterial field, after any number of calls, and a
\* renderer creates at most one motion material per object.
C19_SubstitutionIsReversible ==
    /\ [](/\ \A o \in Objects : scene[o].oldMaterial = Absent
          /\ OneMaterialEach(taaPass)
          /\ OneMaterialEach(motionVecRenderer))
    /\ [][\A o \in Objects : scene'[o].material = scene[o].material]_vars

\* The bootstrap frame has rendered its 16 motion maps.
C19_Witness ==
    /\ Cardinality(TraceOps("motion")) = JitterCount
    /\ \E o \in Objects : taaPass.created[o] = 1 /\ scene[o].material = o
    /\ pc = "post"

\* ------------------------------------------ claims on the history buffer
\* The operations that read the history buffer: the reprojection samples it,
\* a copy has it as its source.
CopiesHistory(e) == e.op = "copy" /\ e.src = "history"

ReadsHistory(e) == e.op = "reproject" \/ CopiesHistory(e)

\* The latest reprojection before operation j, or 0.
ReprojectBefore(j) ==
    LET before == {k \in TraceOps("reproject") : k < j}
    IN IF before = {} THEN 0 ELSE CHOOSE k \in before : \A l \in before : l <= k

ModeResources ==
    <<antialiasing, composerPasses, ssaaPass.state, taaPass.state, taaPass.hook,
      motionVecRenderer.state, motionVecRenderer.hook>>

\* C21: between the beginning of a frame's iteration and its render dispatch
\* the mode and the mode resources do not change, and they do not change
\* while its post-render hooks run: a setAntialiasingMode call made by a hook
\* takes effect between frames.
C21_ModeFixedDuringFrame ==
    [][pc # "idle" => ModeResources' = ModeResources]_vars

\* C22: a call setAntialiasingMode(m) rebuilds the graphics context, once,
\* exactly when m differs from the current mode and one of the two is MSAA;
\* for any other pair of distinct modes the renderer is kept; a call with the
\* current mode changes nothing.
C22_RebuildIffMsaa ==
    [][\A m \in Modes :
        SetAntialiasingMode(m) =>
            IF antialiasing = m
            THEN /\ UNCHANGED <<modeVars, hooks>>
                 /\ trace' = <<>>
            ELSE /\ antialiasing' = m
                 /\ Cardinality(TraceOps("rebuild")') =
                       IF antialiasing = MSAA \/ m = MSAA THEN 1 ELSE 0]_vars

\* The mode has left MSAA for TAA, with a rebuild.
C22_Witness ==
    /\ TraceOps("rebuild") # {}
    /\ antialiasing = TAA
    /\ isRendering

\* ------------------------------------------------- claims on the hook lists
\* The nodes a frame's two loops would visit.
Linked == Range(ListSeq(hooks, PreList)) \cup Range(ListSeq(hooks, PostList))

\* C23: a hook whose handle has been cancelled, by its caller or by the
\* dispose() of the component that registered it, is in neither list from
\* then on, so that no later frame invokes it.
C23_CancelledStaysOut ==
    hooks.cancelled \cap Linked = {}

\* The callers' hooks in a list, in the order of the list.
UserHooks(L, list) == SelectSeq(ListSeq(L, list), LAMBDA n : L.kind[n] = "user")

\* C24: a setAntialiasingMode call leaves the callers' hooks in both lists,
\* in the same order: it removes and adds snapshot hooks only.
C24_SwitchKeepsCallersHooks ==
    [][\A m \in Modes :
        SetAntialiasingMode(m) =>
            /\ UserHooks(hooks', PreList) = UserHooks(hooks, PreList)
            /\ UserHooks(hooks', PostList) = UserHooks(hooks, PostList)]_vars

\* ------------------------------------------ claims on the render dispatch
\* The snapshot hooks a frame's loops would visit.
SnapshotHooksLinked == {n \in Linked : hooks.kind[n] = "snapshot"}

\* How often the post-render loop would visit node n.
TimesLinked(n) ==
    Cardinality({i \in DOMAIN ListSeq(hooks, PostList) :
                    ListSeq(hooks, PostList)[i] = n})

\* C25: when a frame dispatches its render, in the TAA mode the composer
\* holds one pass, a TaaRenderPass that is not disposed; in the MOTION mode
\* the motion-vector renderer is not disposed and its snapshot hook is
\* registered once; in the modes NONE and MSAA no snapshot hook is registered.
C25_DispatchUsesLiveModeResources ==
    (pc = "pre" /\ current = Null) =>
        /\ antialiasing = TAA => (composerPasses = <<"taa">> /\ Live(taaPass))
        /\ antialiasing = MOTION =>
              (Live(motionVecRenderer) /\ TimesLinked(motionVecRenderer.hook) = 1)
        /\ antialiasing \in {NONE, MSAA} => SnapshotHooksLinked = {}

====
